---- MODULE Spec2Model ----
(***************************************************************************)
(* A model of cdv's CTV core (src/ctv.rs) and of the vault locking         *)
(* handler (src/server/vaults.rs).                                         *)
(*                                                                         *)
(* The operations are pure functions.  A state holds one call: the         *)
(* operation `op`, its argument `arg`, the position `pc` ("ready" before   *)
(* the call, "done" after it), the result `ret`, and `core`, the core      *)
(* operations a presentation handler invoked, in order.                    *)
(*                                                                         *)
(* Byte strings are sequences whose elements are either a byte <<n>> or a  *)
(* token <<name, content>> standing for a fixed-width block of bytes:      *)
(* <<"sha256", data>> is the 32-byte digest of data, so that sha256 is     *)
(* injective (collision-free) in the model.                                *)
(***************************************************************************)
EXTENDS Integers, Sequences, FiniteSets, TLC

VARIABLES op, arg, pc, ret, core

vars == <<op, arg, pc, ret, core>>

-----------------------------------------------------------------------------
(* Results: anyhow::Result, plus a panic (an unwinding abort of the call). *)

Ok(v) == [st |-> "ok", val |-> v]

Err(e) == [st |-> "err", err |-> e]

Panic(e) == [st |-> "panic", err |-> e]

NoRet == [st |-> "none"]

-----------------------------------------------------------------------------
(* Bytes and consensus encodings.                                          *)

B(n) == <<n>>

IsToken(e) == Len(e) = 2

\* Width in bytes of a token.
TokenLen(e) ==
  CASE e[1] = "sha256" -> 32
    [] e[1] = "txid" -> 32
    [] e[1] = "hash160" -> 20
    [] e[1] = "data" -> e[2][1]

RECURSIVE ByteLen(_)
ByteLen(buf) ==
  IF buf = <<>> THEN 0
  ELSE (IF IsToken(Head(buf)) THEN TokenLen(Head(buf)) ELSE 1) + ByteLen(Tail(buf))

\* sha2::Sha256 over a byte string: a 32-byte digest.
sha256(data) == << <<"sha256", data>> >>

\* Little-endian encoding of the low `w` bytes of n (two's complement).
RECURSIVE LE(_, _)
LE(n, w) ==
  IF w = 0 THEN <<>> ELSE <<B(n % 256)>> \o LE((n - (n % 256)) \div 256, w - 1)

\* u32 / i32 consensus_encode: 4 bytes little-endian.  TLC's integers are 32-bit
\* signed: a u32 of 2^31 or more is written as the i32 with the same four bytes.
LE32(n) == LE(n, 4)

\* Amount (u64) consensus_encode: 8 bytes little-endian.
LE64(n) == LE(n, 8)

\* bitcoin VarInt (compact size).
VarInt(n) ==
  IF n < 253 THEN <<B(n)>>
  ELSE IF n < 65536 THEN <<B(253)>> \o LE(n, 2)
  ELSE <<B(254)>> \o LE(n, 4)

\* Script consensus_encode: length prefix, then the bytes.
EncodeScript(s) == VarInt(ByteLen(s)) \o s

\* TxOut consensus_encode: value, then the length-prefixed script.
EncodeTxOut(txout) == LE64(txout.value) \o EncodeScript(txout.script_pubkey)

RECURSIVE Concat(_)
Concat(ss) == IF ss = <<>> THEN <<>> ELSE Head(ss) \o Concat(Tail(ss))

-----------------------------------------------------------------------------
(* mod util: the BIP-119 template hash.                                    *)

\* A faulty variant: the scriptSig digest is always included.
util_scriptsigs_Always(tx) ==
  [some |-> TRUE,
   val |-> sha256(Concat([i \in 1..Len(tx.input) |->
                            EncodeScript(tx.input[i].script_sig)]))]

util_scriptsigs(tx) ==
  IF \A i \in 1..Len(tx.input) : tx.input[i].script_sig = <<>>
  THEN [some |-> FALSE]
  ELSE [some |-> TRUE,
        val |-> sha256(Concat([i \in 1..Len(tx.input) |->
                                 EncodeScript(tx.input[i].script_sig)]))]

util_sequences(tx) ==
  sha256(Concat([i \in 1..Len(tx.input) |-> LE32(tx.input[i].sequence)]))

util_outputs(tx) ==
  sha256(Concat([i \in 1..Len(tx.output) |-> EncodeTxOut(tx.output[i])]))

util_ctv(tx, input) ==
  sha256(LE32(tx.version)
         \o LE32(tx.lock_time)
         \o (IF util_scriptsigs(tx).some THEN util_scriptsigs(tx).val ELSE <<>>)
         \o LE32(Len(tx.input))
         \o util_sequences(tx)
         \o LE32(Len(tx.output))
         \o util_outputs(tx)
         \o LE32(input))

-----------------------------------------------------------------------------
(* Addresses and scripts (the bitcoin crate, as src/ctv.rs uses it).       *)

\* bitcoin::Network.
Networks == {"bitcoin", "testnet", "signet", "regtest"}

\* An Address<NetworkUnchecked> comes from parsing its text; `kind` is what
\* the text starts with: "bc", "tb", "bcrt" (segwit v0 key hash) or "m"
\* (base58 testnet P2PKH).  The parse fixes the network the address carries.
AddressNetwork(address) ==
  CASE address.kind = "bc" -> "bitcoin"
    [] address.kind = "tb" -> "testnet"
    [] address.kind = "bcrt" -> "regtest"
    [] address.kind = "m" -> "testnet"

IsLegacy(address) == address.kind = "m"

\* Address::is_valid_for_network, which require_network checks.
IsValidForNetwork(address, network) ==
  LET a == AddressNetwork(address) IN
  IF a = network THEN TRUE
  ELSE IF a = "bitcoin" \/ network = "bitcoin" THEN FALSE
  ELSE IF (a = "regtest" \/ network = "regtest") /\ ~IsLegacy(address) THEN FALSE
  ELSE TRUE

\* Address::script_pubkey: P2PKH for a legacy address, P2WPKH otherwise.
AddressScriptPubkey(address) ==
  IF IsLegacy(address)
  THEN <<B(118), B(169), B(20), <<"hash160", <<address.payload>>>>, B(136), B(172)>>
  ELSE <<B(0), B(20), <<"hash160", <<address.payload>>>>>>

\* Address::p2wsh(script, network).script_pubkey(): OP_0 <sha256(script)>.
P2wshScriptPubkey(script) == <<B(0), B(32)>> \o sha256(script)

\* script::Builder::push_slice: the push opcode for the length, then the bytes.
PushSlice(bytes) ==
  LET n == ByteLen(bytes) IN
  (IF n < 76 THEN <<B(n)>>
   ELSE IF n < 256 THEN <<B(76), B(n)>>
   ELSE IF n < 65536 THEN <<B(77)>> \o LE(n, 2)
   ELSE <<B(78)>> \o LE(n, 4)) \o bytes

OP_NOP4 == 179

OP_RETURN == 106

\* segwit::locking_script: <tmplhash> OP_NOP4 (OP_CHECKTEMPLATEVERIFY).
locking_script(tmplhash) == PushSlice(tmplhash) \o <<B(OP_NOP4)>>

-----------------------------------------------------------------------------
(* struct Ctv and enum Output.                                             *)

\* The `?` operator (src/ctv.rs lines 47, 62-65, 70, 126): an error (or panic)
\* of r is the result, otherwise F continues with the value.
Try(r, F(_)) == IF r.st # "ok" THEN r ELSE F(r.val)

RECURSIVE as_txout(_, _), CollectTxOuts(_, _), as_tx(_), Ctv_ctv(_)

\* Output::as_txout.  The text of a Data output is a record: its length in
\* bytes, an id standing for its content, and `over4g` when the length
\* exceeds what PushBytesBuf accepts (u32::MAX bytes, beyond TLC's integers).
as_txout(output, network) ==
  CASE output.kind = "Address" ->
         IF IsValidForNetwork(output.address, network)
         THEN Ok([value |-> output.amount,
                  script_pubkey |-> AddressScriptPubkey(output.address)])
         ELSE Err("InvalidAddressForNetwork")
    [] output.kind = "Data" ->
         IF output.data.over4g
         THEN Err("DataTooLarge")
         ELSE Ok([value |-> 0,
                  script_pubkey |->
                    <<B(OP_RETURN)>>
                    \o PushSlice(<< <<"data", <<output.data.len, output.data.id>>>> >>)])
    [] output.kind = "Tree" ->
         Try(Ctv_ctv(output.tree),
             LAMBDA tmplhash :
               Ok([value |-> output.amount,
                   script_pubkey |-> P2wshScriptPubkey(locking_script(tmplhash))]))

\* .map(|output| output.as_txout(network)).collect::<Result<Vec<_>>>(): the
\* first error, or every TxOut in order.
CollectTxOuts(outs, network) ==
  IF outs = <<>> THEN Ok(<<>>)
  ELSE Try(as_txout(Head(outs), network),
           LAMBDA h : Try(CollectTxOuts(Tail(outs), network),
                          LAMBDA t : Ok(<<h>> \o t)))

\* Ctv::txouts.
txouts(self) == CollectTxOuts(self.outputs, self.network)

\* TxIn::default(): null outpoint, empty scriptSig, empty witness.
NullOutPoint == [txid |-> << <<"txid", <<0>>>> >>, vout |-> -1]

\* Ctv::as_tx.
as_tx(self) ==
  Try(CollectTxOuts(self.outputs, self.network),
      LAMBDA output :
        Ok([version |-> self.version, lock_time |-> self.locktime,
            input |-> [i \in 1..Len(self.sequences) |->
                         [previous_output |-> NullOutPoint, script_sig |-> <<>>,
                          sequence |-> self.sequences[i], witness |-> <<>>]],
            output |-> output]))

\* Ctv::ctv.
Ctv_ctv(self) == Try(as_tx(self), LAMBDA tx : Ok(util_ctv(tx, 0)))

\* Ctv::witness.
witness(self) == Try(Ctv_ctv(self), LAMBDA h : Ok(<<locking_script(h)>>))

\* Transaction::txid: the double SHA-256 of the serialization without witness.
EncodeTxIn(txin) ==
  txin.previous_output.txid \o LE32(txin.previous_output.vout)
  \o EncodeScript(txin.script_sig) \o LE32(txin.sequence)

Txid(tx) ==
  sha256(sha256(LE32(tx.version)
                \o VarInt(Len(tx.input))
                \o Concat([i \in 1..Len(tx.input) |-> EncodeTxIn(tx.input[i])])
                \o VarInt(Len(tx.output))
                \o Concat([i \in 1..Len(tx.output) |-> EncodeTxOut(tx.output[i])])
                \o LE32(tx.lock_time)))

\* The transaction of lines 53-66, once the witness and the outputs are known.
SpendingTransaction(self, txid, vout, w, o) ==
  [version |-> self.version, lock_time |-> self.locktime,
   input |-> <<[previous_output |-> [txid |-> txid, vout |-> vout],
                script_sig |-> <<>>,
                sequence |-> self.sequences[1],
                witness |-> w]>>,
   output |-> o]

\* Whether `if let Some(Output::Tree {..}) = self.outputs.first()` matches.
FirstIsTree(self) == self.outputs # <<>> /\ self.outputs[1].kind = "Tree"

\* A faulty variant: the recursion spends output `vout` of the new transaction, not 0.
RECURSIVE spending_tx_SameVout(_, _, _), Extend_SameVout(_, _, _)
Extend_SameVout(self, tx, vout) ==
  IF FirstIsTree(self)
  THEN Try(spending_tx_SameVout(self.outputs[1].tree, Txid(tx), vout),
           LAMBDA rest : Ok(<<tx>> \o rest))
  ELSE Ok(<<tx>>)

spending_tx_SameVout(self, txid, vout) ==
  IF self.sequences = <<>> THEN Err("Missing sequence")
  ELSE Try(witness(self),
           LAMBDA w : Try(txouts(self),
                          LAMBDA o : Extend_SameVout(
                                       self, SpendingTransaction(self, txid, vout, w, o), vout)))

\* A faulty variant: a failure below keeps the transactions built so far.
KeepOnError(tx, rest) == IF rest.st # "ok" THEN Ok(<<tx>>) ELSE Ok(<<tx>> \o rest.val)

RECURSIVE spending_tx_Partial(_, _, _), Extend_Partial(_, _)
Extend_Partial(self, tx) ==
  IF FirstIsTree(self)
  THEN KeepOnError(tx, spending_tx_Partial(self.outputs[1].tree, Txid(tx), 0))
  ELSE Ok(<<tx>>)

spending_tx_Partial(self, txid, vout) ==
  IF self.sequences = <<>> THEN Err("Missing sequence")
  ELSE Try(witness(self),
           LAMBDA w : Try(txouts(self),
                          LAMBDA o : Extend_Partial(
                                       self, SpendingTransaction(self, txid, vout, w, o))))

\* A faulty variant: the recursion follows every Tree output, not only outputs[0].
RECURSIVE spending_tx_AllTrees(_, _, _), ExpandTrees(_, _, _)
ExpandTrees(outs, i, txid) ==
  IF i > Len(outs) THEN Ok(<<>>)
  ELSE IF outs[i].kind # "Tree" THEN ExpandTrees(outs, i + 1, txid)
  ELSE Try(spending_tx_AllTrees(outs[i].tree, txid, i - 1),
           LAMBDA h : Try(ExpandTrees(outs, i + 1, txid), LAMBDA t : Ok(h \o t)))

Extend_AllTrees(self, tx) ==
  Try(ExpandTrees(self.outputs, 1, Txid(tx)), LAMBDA rest : Ok(<<tx>> \o rest))

spending_tx_AllTrees(self, txid, vout) ==
  IF self.sequences = <<>> THEN Err("Missing sequence")
  ELSE Try(witness(self),
           LAMBDA w : Try(txouts(self),
                          LAMBDA o : Extend_AllTrees(
                                       self, SpendingTransaction(self, txid, vout, w, o))))

\* Ctv::spending_tx.
RECURSIVE spending_tx(_, _, _), Extend(_, _)

\* Lines 67-72: the transaction, then the chain of outputs[0] when it is a Tree.
Extend(self, tx) ==
  IF FirstIsTree(self)
  THEN Try(spending_tx(self.outputs[1].tree, Txid(tx), 0),
           LAMBDA rest : Ok(<<tx>> \o rest))
  ELSE Ok(<<tx>>)

spending_tx(self, txid, vout) ==
  IF self.sequences = <<>> THEN Err("Missing sequence")
  ELSE Try(witness(self),
           LAMBDA w : Try(txouts(self),
                          LAMBDA o : Extend(self, SpendingTransaction(self, txid, vout, w, o))))

-----------------------------------------------------------------------------
(* segwit::vault_locking_script.                                           *)

OP_IF == 99

OP_ELSE == 103

OP_ENDIF == 104

OP_CSV == 178

OP_DROP == 117

\* The fee both committed templates deduct, in satoshis.
Fee == 600

\* Sequence::from_height(u16).
SequenceFromHeight(delay) == delay

\* The script number encoding of n >= 0: little-endian magnitude, and a zero
\* byte on top when the highest bit would otherwise read as the sign.
RECURSIVE ScriptNum(_)
ScriptNum(n) ==
  IF n = 0 THEN <<>>
  ELSE IF n < 128 THEN <<B(n)>>
  ELSE IF n < 256 THEN <<B(n), B(0)>>
  ELSE <<B(n % 256)>> \o ScriptNum(n \div 256)

\* script::Builder::push_sequence -> push_int, for a sequence below 2^31.
PushSequence(n) ==
  IF n = 0 THEN <<B(0)>>
  ELSE IF n <= 16 THEN <<B(80 + n)>>
  ELSE PushSlice(ScriptNum(n))

\* Amount - Amount: checked_sub(..).expect(..), a panic on underflow.
AmountSub(a, b) == IF a < b THEN Panic("Amount subtraction error") ELSE Ok(a - b)

\* cold_ctv (lines 252-261) and hot_ctv (lines 263-267), given the amount
\* each output pays.
vault_cold_ctv(cold, network, value) ==
  [network |-> network, version |-> 1, locktime |-> 0, sequences |-> <<0>>,
   outputs |-> <<[kind |-> "Address", address |-> cold, amount |-> value]>>]

\* A faulty variant: the clone of cold_ctv is left as it is.
vault_hot_ctv_NotReplaced(cold, hot, network, value) ==
  vault_cold_ctv(cold, network, value)

vault_hot_ctv(cold, hot, network, value) ==
  [vault_cold_ctv(cold, network, value) EXCEPT
     !.outputs[1] = [kind |-> "Address", address |-> hot, amount |-> value]]

\* A faulty variant: the two hashes are pushed in each other's branch.
vault_script_Swapped(delay, hot_hash, cold_hash) ==
  <<B(OP_IF)>>
  \o PushSequence(SequenceFromHeight(delay))
  \o <<B(OP_CSV), B(OP_DROP)>>
  \o PushSlice(cold_hash)
  \o <<B(OP_NOP4), B(OP_ELSE)>>
  \o PushSlice(hot_hash)
  \o <<B(OP_NOP4), B(OP_ENDIF)>>

\* The Builder chain of lines 269-280.
vault_script(delay, hot_hash, cold_hash) ==
  <<B(OP_IF)>>
  \o PushSequence(SequenceFromHeight(delay))
  \o <<B(OP_CSV), B(OP_DROP)>>
  \o PushSlice(hot_hash)
  \o <<B(OP_NOP4), B(OP_ELSE)>>
  \o PushSlice(cold_hash)
  \o <<B(OP_NOP4), B(OP_ENDIF)>>

vault_locking_script(delay, cold, hot, network, amount) ==
  Try(AmountSub(amount, Fee), LAMBDA cold_value :
  Try(Ctv_ctv(vault_cold_ctv(cold, network, cold_value)), LAMBDA cold_hash :
  Try(AmountSub(amount, Fee), LAMBDA hot_value :
  Try(Ctv_ctv(vault_hot_ctv(cold, hot, network, hot_value)), LAMBDA hot_hash :
  Ok(vault_script(delay, hot_hash, cold_hash))))))

\* segwit::locking_address: Address::p2wsh(script, network).
locking_address(script, network) ==
  [kind |-> "p2wsh", network |-> network, script_pubkey |-> P2wshScriptPubkey(script)]

-----------------------------------------------------------------------------
(* server::vaults: the locking handler.                                    *)

\* Address<NetworkUnchecked> from its text: malformed text is an error.
AddressFromStr(text) ==
  IF text.wellformed THEN Ok([kind |-> text.kind, payload |-> text.payload])
  ELSE Err("invalid address")

\* Amount (unsigned) from its text, in satoshis: a negative amount is an error.
AmountFromStr(n) == IF n < 0 THEN Err("invalid amount") ELSE Ok(n)

\* u16 from its text.
U16FromStr(n) == IF n < 0 \/ n > 65535 THEN Err("invalid u16") ELSE Ok(n)

\* Form<LockingRequest>: the form fields deserialized into LockingRequest.
DeserializeLockingRequest(form) ==
  LET amount == AmountFromStr(form.amount)
      cold == AddressFromStr(form.cold_address)
      hot == AddressFromStr(form.hot_address)
      delay == U16FromStr(form.block_delay)
  IN IF amount.st # "ok" THEN amount
     ELSE IF cold.st # "ok" THEN cold
     ELSE IF hot.st # "ok" THEN hot
     ELSE IF delay.st # "ok" THEN delay
     ELSE Ok([amount |-> amount.val, cold_address |-> cold.val, hot_address |-> hot.val,
              block_delay |-> delay.val, network |-> form.network])

\* impl From<LockingRequest> for Vault.
VaultFrom(value) ==
  [hot |-> value.hot_address, cold |-> value.cold_address, amount |-> value.amount,
   network |-> value.network, delay |-> value.block_delay]

\* Vault::vault_address: the vault locking script, wrapped as a P2WSH address.
vault_address(vault) ==
  Try(vault_locking_script(vault.delay, vault.cold, vault.hot, vault.network, vault.amount),
      LAMBDA script : Ok(locking_address(script, vault.network)))

\* Address::require_network on the vault address.
RequireNetwork(address, network) ==
  IF address.network # network THEN Err("InvalidAddressForNetwork") ELSE Ok(address)

\* Lines 64-67, for a deserialized request: the result, and the core
\* operations invoked.
LockingVault(vault) ==
  [ret |-> Try(vault_address(vault),
               LAMBDA a : Try(RequireNetwork(a, vault.network),
                              LAMBDA address : Ok([vault |-> vault, address |-> address]))),
   core |-> <<[fn |-> "vault_address", vault |-> vault]>>]

\* What the handler does with the extracted form: a form that does not
\* deserialize is rejected before the handler body runs.
LockingOf(request) ==
  IF request.st # "ok" THEN [ret |-> request, core |-> <<>>]
  ELSE LockingVault(VaultFrom(request.val))

\* The locking handler: its result, and the core operations it invoked.
locking(form) == LockingOf(DeserializeLockingRequest(form))

-----------------------------------------------------------------------------
(* Inputs of util::ctv: transaction skeletons.                             *)

MaxInputs == 2

MaxOutputs == 2

MaxIndex == 1

SeqsUpTo(S, n) == UNION {[1..k -> S] : k \in 0..n}

SampleScriptSigs == {<<>>, <<B(81)>>}

SampleSequences == {0, 16777217}

SampleTxIns ==
  {[previous_output |-> NullOutPoint, script_sig |-> s, sequence |-> q, witness |-> <<>>] :
     s \in SampleScriptSigs, q \in SampleSequences}

SampleTxOuts ==
  {[value |-> v, script_pubkey |-> s] : v \in {0, 258}, s \in {<<>>, <<B(106), B(1), B(7)>>}}

SampleTxs ==
  {[version |-> v, lock_time |-> l, input |-> i, output |-> o] :
     v \in {2, -1}, l \in {0, 500},
     i \in SeqsUpTo(SampleTxIns, MaxInputs) \ {<<>>},
     o \in SeqsUpTo(SampleTxOuts, MaxOutputs)}

-----------------------------------------------------------------------------
(* Inputs of Ctv::spending_tx: nested templates and a funding outpoint.    *)

\* Nesting levels below the root along outputs[0].
MaxDepth == 2

AddrOK == [kind |-> "tb", payload |-> 1]

AddrWrongNet == [kind |-> "bc", payload |-> 2]

OutAddress(a, v) == [kind |-> "Address", address |-> a, amount |-> v]

OutData(l, big) == [kind |-> "Data", data |-> [len |-> l, id |-> 1, over4g |-> big]]

OutTree(t, v) == [kind |-> "Tree", tree |-> t, amount |-> v]

Template(seqs, outs) ==
  [network |-> "testnet", version |-> 2, locktime |-> 0,
   sequences |-> seqs, outputs |-> outs]

SampleSequenceLists == {<<>>, <<0>>, <<10, 0>>}

\* Templates that sit in a Tree at an output index >= 1: one that has no
\* sequence (it still materializes), one whose output cannot materialize.
SiblingNoSeq == Template(<<>>, <<OutAddress(AddrOK, 300)>>)

SiblingOK == Template(<<0>>, <<OutData(5, FALSE), OutAddress(AddrOK, 300)>>)

SiblingBad == Template(<<0>>, <<OutData(80, TRUE)>>)

SampleTails ==
  {<<>>, <<OutTree(SiblingNoSeq, 500)>>, <<OutTree(SiblingOK, 500)>>,
   <<OutTree(SiblingBad, 500)>>}

LeafFirsts == {OutAddress(AddrOK, 1000), OutAddress(AddrWrongNet, 1000), OutData(5, FALSE)}

RECURSIVE Templates(_)
Templates(d) ==
  LET firsts == IF d = 0 THEN LeafFirsts
                ELSE LeafFirsts \cup {OutTree(t, 2000) : t \in Templates(d - 1)}
  IN {Template(q, o) : q \in SampleSequenceLists,
                       o \in {<<>>} \cup {<<f>> \o t : f \in firsts, t \in SampleTails}}

FundingTxid(n) == << <<"txid", <<n>>>> >>

SampleOutPoints == {[txid |-> FundingTxid(1), vout |-> 0], [txid |-> FundingTxid(2), vout |-> 1]}

-----------------------------------------------------------------------------
(* Inputs of segwit::vault_locking_script.                                 *)

SampleAddresses ==
  {[kind |-> k, payload |-> p] : k \in {"tb", "bc"}, p \in {1, 2}}
  \cup {[kind |-> "bcrt", payload |-> 1], [kind |-> "m", payload |-> 1]}

\* u16 delays: each push encoding (OP_0, OP_n, one, two and three bytes).
SampleDelays == {0, 1, 17, 144, 40000, 65535}

SampleAmounts == {0, Fee - 1, Fee, Fee + 1, Fee + 9400}

-----------------------------------------------------------------------------
(* Inputs of the locking handler: the submitted form.                      *)

SampleAddressTexts ==
  {[kind |-> k, payload |-> p, wellformed |-> TRUE] : k \in {"tb", "bc"}, p \in {1, 2}}
  \cup {[kind |-> "tb", payload |-> 1, wellformed |-> FALSE]}

SampleFormDelays == {0, 1, 144, 65535, 65536}

SampleFormAmounts == {-1, 0, Fee, Fee + 9400}

SampleForms ==
  {[amount |-> a, cold_address |-> c, hot_address |-> h, block_delay |-> d, network |-> n] :
     a \in SampleFormAmounts, c \in SampleAddressTexts, h \in SampleAddressTexts,
     d \in SampleFormDelays, n \in {"bitcoin", "testnet"}}

-----------------------------------------------------------------------------

Init ==
  /\ pc = "ready"
  /\ ret = NoRet
  /\ core = <<>>
  /\ \/ /\ op = "ctv"
        /\ arg \in {[tx |-> t, input |-> i] : t \in SampleTxs, i \in 0..MaxIndex}
     \/ /\ op = "spending_tx"
        /\ arg \in {[self |-> t, txid |-> o.txid, vout |-> o.vout] :
                      t \in Templates(MaxDepth), o \in SampleOutPoints}
     \/ /\ op = "vault_locking_script"
        /\ arg \in {[delay |-> d, cold |-> c, hot |-> h, network |-> n, amount |-> a] :
                      d \in SampleDelays, c \in SampleAddresses, h \in SampleAddresses,
                      n \in Networks, a \in SampleAmounts}
     \/ /\ op = "locking"
        /\ arg \in SampleForms

CallCtv ==
  /\ pc = "ready" /\ op = "ctv"
  /\ ret' = Ok(util_ctv(arg.tx, arg.input))
  /\ pc' = "done"
  /\ UNCHANGED <<op, arg, core>>

CallVaultLockingScript ==
  /\ pc = "ready" /\ op = "vault_locking_script"
  /\ ret' = vault_locking_script(arg.delay, arg.cold, arg.hot, arg.network, arg.amount)
  /\ pc' = "done"
  /\ UNCHANGED <<op, arg, core>>

CallLocking ==
  /\ pc = "ready" /\ op = "locking"
  /\ \E r \in {locking(arg)} : ret' = r.ret /\ core' = r.core
  /\ pc' = "done"
  /\ UNCHANGED <<op, arg>>

CallSpendingTx ==
  /\ pc = "ready" /\ op = "spending_tx"
  /\ ret' = spending_tx(arg.self, arg.txid, arg.vout)
  /\ pc' = "done"
  /\ UNCHANGED <<op, arg, core>>

Next ==
  \/ CallCtv
  \/ CallSpendingTx
  \/ CallVaultLockingScript
  \/ CallLocking

Spec == Init /\ [][Next]_vars

-----------------------------------------------------------------------------
(* Properties.                                                             *)

Done(o) == pc = "done" /\ op = o

\* The four bytes of n, least significant first.
Bytes4(n) ==
  <<B(n % 256), B((n \div 256) % 256), B((n \div 65536) % 256), B((n \div 16777216) % 256)>>

\* The digest of the concatenation of f[1], ..., f[n].
DigestOfAll(f) == sha256(Concat(f))

\* C1: the commitment hash is SHA-256 of version, locktime, the digest of the
\* length-prefixed scriptSigs (present exactly when some scriptSig is not
\* empty), input count, digest of the sequences, output count, digest of the
\* outputs and the input index, each integer as 4 bytes little-endian.
C1_CommitmentLayout ==
  Done("ctv") =>
    LET tx == arg.tx
        anySig == \E i \in 1..Len(tx.input) : tx.input[i].script_sig # <<>>
        sigs == DigestOfAll([i \in 1..Len(tx.input) |->
                  VarInt(ByteLen(tx.input[i].script_sig)) \o tx.input[i].script_sig])
        seqs == DigestOfAll([i \in 1..Len(tx.input) |-> Bytes4(tx.input[i].sequence)])
        outs == DigestOfAll([i \in 1..Len(tx.output) |->
                  LE(tx.output[i].value, 8)
                  \o VarInt(ByteLen(tx.output[i].script_pubkey))
                  \o tx.output[i].script_pubkey])
    IN /\ ret.st = "ok"
       /\ ret.val = sha256(Bytes4(tx.version) \o Bytes4(tx.lock_time)
                           \o (IF anySig THEN sigs ELSE <<>>)
                           \o Bytes4(Len(tx.input)) \o seqs
                           \o Bytes4(Len(tx.output)) \o outs
                           \o Bytes4(arg.input))

C1_Witness ==
  /\ Done("ctv") /\ ret.st = "ok"
  /\ Len(arg.tx.input) = 2 /\ Len(arg.tx.output) = 2 /\ arg.input = 1
  /\ arg.tx.input[1].script_sig = <<>> /\ arg.tx.input[2].script_sig # <<>>
  /\ arg.tx.input[1].sequence # arg.tx.input[2].sequence

C1_WitnessNoScriptSig ==
  /\ Done("ctv") /\ ret.st = "ok"
  /\ Len(arg.tx.input) = 2
  /\ \A i \in 1..2 : arg.tx.input[i].script_sig = <<>>

\* The templates along the outputs[0] path of t, root first.
RECURSIVE Path(_)
Path(t) ==
  IF t.outputs # <<>> /\ t.outputs[1].kind = "Tree"
  THEN <<t>> \o Path(t.outputs[1].tree)
  ELSE <<t>>

\* Whether every output of t, at every level, materializes.
RECURSIVE Materializes(_)
Materializes(t) ==
  \A i \in 1..Len(t.outputs) :
    LET o == t.outputs[i] IN
    CASE o.kind = "Address" -> IsValidForNetwork(o.address, t.network)
      [] o.kind = "Data" -> ~o.data.over4g
      [] o.kind = "Tree" -> Materializes(o.tree)

PathHasEmptySequences(t) == \E k \in 1..Len(Path(t)) : Path(t)[k].sequences = <<>>

\* C2: a successful spending_tx on a template of depth n returns n
\* transactions; the first spends (txid, vout) alone, each later one spends
\* alone output 0 of the one before it, and the last one's outputs are the
\* materialized outputs of the deepest template.
C2_ChainContinuity ==
  (Done("spending_tx") /\ ret.st = "ok") =>
    LET chain == ret.val
        path == Path(arg.self)
        n == Len(path)
    IN /\ Len(chain) = n
       /\ Len(chain[1].input) = 1
       /\ chain[1].input[1].previous_output = [txid |-> arg.txid, vout |-> arg.vout]
       /\ \A k \in 2..n :
            /\ Len(chain[k].input) = 1
            /\ chain[k].input[1].previous_output = [txid |-> Txid(chain[k - 1]), vout |-> 0]
       /\ as_tx(path[n]).st = "ok"
       /\ chain[n].output = as_tx(path[n]).val.output

C2_Witness ==
  /\ Done("spending_tx") /\ ret.st = "ok"
  /\ Len(ret.val) >= 3
  /\ arg.vout = 1
  /\ ret.val[Len(ret.val)].output # <<>>

\* C7: spending_tx returns the complete chain or an error and no transaction:
\* it fails exactly when a template on the outputs[0] path has no sequence or
\* some output at some level does not materialize, and a success holds one
\* transaction per level of the path.
C7_AllOrNothing ==
  Done("spending_tx") =>
    /\ ret.st \in {"ok", "err"}
    /\ ret.st = "err" <=> (PathHasEmptySequences(arg.self) \/ ~Materializes(arg.self))
    /\ ret.st = "err" => DOMAIN ret = {"st", "err"}
    /\ ret.st = "ok" => Len(ret.val) = Len(Path(arg.self))

C7_Witness ==
  /\ Done("spending_tx") /\ ret.st = "err"
  /\ Len(Path(arg.self)) = 3
  /\ Path(arg.self)[1].sequences # <<>> /\ Path(arg.self)[2].sequences # <<>>
  /\ Path(arg.self)[3].sequences = <<>>
  /\ Materializes(arg.self)

C7_WitnessOutputFails ==
  /\ Done("spending_tx") /\ ret.st = "err"
  /\ Len(Path(arg.self)) = 3
  /\ ~PathHasEmptySequences(arg.self)
  /\ ~Materializes(Path(arg.self)[3])

\* The Tree outputs of t at an index >= 2 (the code's index >= 1).
SiblingTrees(t) == {i \in 2..Len(t.outputs) : t.outputs[i].kind = "Tree"}

\* C10: spending_tx recurses into outputs[0] only.  When a template on the
\* path has a Tree at an index >= 1 and the path itself can be spent, the call
\* succeeds whatever that sibling's sequences are, the chain has one
\* transaction per level of the outputs[0] path (more than one exactly when
\* outputs[0] is a Tree), every later transaction spends output 0, and none
\* carries the sibling's commitment script as its witness.
C10_FirstOutputOnly ==
  (/\ Done("spending_tx")
   /\ \E k \in 1..Len(Path(arg.self)) : SiblingTrees(Path(arg.self)[k]) # {}
   /\ ~PathHasEmptySequences(arg.self)
   /\ Materializes(arg.self)) =>
    LET path == Path(arg.self) IN
    /\ ret.st = "ok"
    /\ Len(ret.val) = Len(path)
    /\ Len(ret.val) > 1 <=> (arg.self.outputs[1].kind = "Tree")
    /\ \A j \in 2..Len(ret.val) : ret.val[j].input[1].previous_output.vout = 0
    /\ \A j \in 1..Len(ret.val) :
         /\ ret.val[j].input[1].witness = witness(path[j]).val
         /\ ret.val[j].output = txouts(path[j]).val
         /\ \A k \in 1..Len(path) : \A i \in SiblingTrees(path[k]) :
              ret.val[j].input[1].witness # witness(path[k].outputs[i].tree).val

C10_Witness ==
  /\ Done("spending_tx") /\ ret.st = "ok"
  /\ Len(ret.val) = 2
  /\ SiblingTrees(arg.self) # {}
  /\ arg.self.outputs[2].tree.sequences # <<>>
  /\ arg.self.outputs[1].kind = "Tree"

C10_WitnessNoRecursion ==
  /\ Done("spending_tx") /\ ret.st = "ok"
  /\ Len(ret.val) = 1
  /\ SiblingTrees(arg.self) # {}
  /\ arg.self.outputs[1].kind # "Tree"

-----------------------------------------------------------------------------
(* Script acceptance, as the claims about the vault script mean it: the    *)
(* opcodes the vault script uses, executed per BIP-112 (OP_CSV) and        *)
(* BIP-119 (OP_NOP4 as OP_CHECKTEMPLATEVERIFY) against a spending          *)
(* transaction `env`: the branch selector it supplies, its commitment      *)
(* hash, its version and the sequence of the spending input.               *)

Truthy(v) == \E k \in 1..Len(v) : IsToken(v[k]) \/ v[k][1] # 0

RECURSIVE DecodeNum(_)
DecodeNum(v) == IF v = <<>> THEN 0 ELSE v[1][1] + 256 * DecodeNum(Tail(v))

\* BIP-112 for a block-height lock n below 2^16.
CsvOK(n, env) ==
  /\ n >= 0
  /\ env.version >= 2
  /\ env.sequence >= 0
  /\ (env.sequence \div 4194304) % 2 = 0
  /\ env.sequence % 65536 >= n

\* How many elements from s[i] on make up n bytes.
RECURSIVE TakeBytes(_, _, _)
TakeBytes(s, i, n) ==
  IF n <= 0 \/ i > Len(s) THEN 0
  ELSE 1 + TakeBytes(s, i + 1, n - (IF IsToken(s[i]) THEN TokenLen(s[i]) ELSE 1))

Top(stack) == stack[Len(stack)]

Pop(stack) == SubSeq(stack, 1, Len(stack) - 1)

\* Executes s from position i; `conds` holds the open OP_IF conditions.
RECURSIVE Run(_, _, _, _, _)
Run(s, i, stack, conds, env) ==
  IF i > Len(s) THEN conds = <<>> /\ Len(stack) = 1 /\ Truthy(stack[1])
  ELSE
    LET b == s[i][1]
        live == \A k \in 1..Len(conds) : conds[k]
    IN
    IF IsToken(s[i]) THEN FALSE
    ELSE IF b >= 1 /\ b <= 75 THEN
      LET k == TakeBytes(s, i + 1, b) IN
      Run(s, i + 1 + k, IF live THEN Append(stack, SubSeq(s, i + 1, i + k)) ELSE stack,
          conds, env)
    ELSE IF b = OP_IF THEN
      IF ~live THEN Run(s, i + 1, stack, Append(conds, FALSE), env)
      ELSE IF stack = <<>> THEN FALSE
      ELSE Run(s, i + 1, Pop(stack), Append(conds, Truthy(Top(stack))), env)
    ELSE IF b = OP_ELSE THEN
      IF conds = <<>> THEN FALSE
      ELSE Run(s, i + 1, stack, Append(Pop(conds), ~Top(conds)), env)
    ELSE IF b = OP_ENDIF THEN
      IF conds = <<>> THEN FALSE ELSE Run(s, i + 1, stack, Pop(conds), env)
    ELSE IF ~live THEN Run(s, i + 1, stack, conds, env)
    ELSE IF b = 0 THEN Run(s, i + 1, Append(stack, <<>>), conds, env)
    ELSE IF b >= 81 /\ b <= 96 THEN Run(s, i + 1, Append(stack, <<B(b - 80)>>), conds, env)
    ELSE IF b = OP_CSV THEN
      /\ stack # <<>>
      /\ CsvOK(DecodeNum(Top(stack)), env)
      /\ Run(s, i + 1, stack, conds, env)
    ELSE IF b = OP_DROP THEN
      stack # <<>> /\ Run(s, i + 1, Pop(stack), conds, env)
    ELSE IF b = OP_NOP4 THEN
      /\ stack # <<>>
      /\ ByteLen(Top(stack)) = 32 => Top(stack) = env.hash
      /\ Run(s, i + 1, stack, conds, env)
    ELSE FALSE

Accepts(script, env) ==
  Run(script, 1, <<IF env.branch THEN <<B(1)>> ELSE <<>>>>, <<>>, env)

\* The commitment hash of the transaction with one input of sequence 0 and
\* one output paying `value` to `address`, version 1, locktime 0.
PaysTo(address, value) ==
  util_ctv([version |-> 1, lock_time |-> 0,
            input |-> <<[previous_output |-> NullOutPoint, script_sig |-> <<>>,
                         sequence |-> 0, witness |-> <<>>]>>,
            output |-> <<[value |-> value,
                          script_pubkey |-> AddressScriptPubkey(address)]>>], 0)

\* The 32-byte hashes a script pushes, in order.
PushedHashes(script) == SelectSeq(script, IsToken)

SpendAttempts(hashes, delay) ==
  {[branch |-> b, hash |-> h, version |-> v, sequence |-> q] :
     b \in BOOLEAN, h \in hashes, v \in {1, 2}, q \in {0, delay, delay + 1}}

\* C3: every transaction of a returned chain is spendable by commitment-hash
\* equality: its own commitment hash at input 0 is the hash its witness
\* script pushes, for a template with any number of sequences.
C3_SpendableByHashEquality ==
  (Done("spending_tx") /\ ret.st = "ok") =>
    \A j \in 1..Len(ret.val) :
      util_ctv(ret.val[j], 0) = PushedHashes(ret.val[j].input[1].witness[1])

\* C4: the vault script accepts a spend exactly through the true branch with
\* the timelock `delay` satisfied and the hot hash, or through the false
\* branch with the cold hash and no timelock check.
C4_TwoBranches ==
  (Done("vault_locking_script") /\ ret.st = "ok") =>
    LET hot_hash == PaysTo(arg.hot, arg.amount - Fee)
        cold_hash == PaysTo(arg.cold, arg.amount - Fee)
    IN \A env \in SpendAttempts({hot_hash, cold_hash, sha256(<<>>)}, arg.delay) :
         Accepts(ret.val, env) <=>
           \/ env.branch /\ CsvOK(arg.delay, env) /\ env.hash = hot_hash
           \/ ~env.branch /\ env.hash = cold_hash

C4_Witness ==
  /\ Done("vault_locking_script") /\ ret.st = "ok"
  /\ arg.hot # arg.cold /\ arg.delay = 144
  /\ Accepts(ret.val, [branch |-> TRUE, hash |-> PaysTo(arg.hot, arg.amount - Fee),
                       version |-> 2, sequence |-> 144])
  /\ ~Accepts(ret.val, [branch |-> TRUE, hash |-> PaysTo(arg.hot, arg.amount - Fee),
                        version |-> 2, sequence |-> 0])
  /\ Accepts(ret.val, [branch |-> FALSE, hash |-> PaysTo(arg.cold, arg.amount - Fee),
                       version |-> 1, sequence |-> 0])

\* C5: the template committed as hot_hash has sequences[0] encoding the
\* delay, so the transaction built from it passes the hot branch.
C5_HotSequenceEncodesDelay ==
  (Done("vault_locking_script") /\ ret.st = "ok") =>
    LET hot == vault_hot_ctv(arg.cold, arg.hot, arg.network, arg.amount - Fee)
        chain == spending_tx(hot, FundingTxid(1), 0)
    IN /\ hot.sequences[1] = SequenceFromHeight(arg.delay)
       /\ chain.st = "ok"
       /\ Accepts(ret.val, [branch |-> TRUE, hash |-> util_ctv(chain.val[1], 0),
                            version |-> chain.val[1].version,
                            sequence |-> chain.val[1].input[1].sequence])

\* C6: an amount above 600 commits both templates to amount - 600; an amount
\* of 600 or less is an error result: no script, no wrap, no abort.
C6_FeeAccounting ==
  Done("vault_locking_script") =>
    /\ (arg.amount > Fee /\ ret.st = "ok") =>
         PushedHashes(ret.val) = PaysTo(arg.hot, arg.amount - Fee)
                                 \o PaysTo(arg.cold, arg.amount - Fee)
    /\ arg.amount <= Fee => ret.st = "err"

\* A form the boundary is to reject.
InvalidForm(form) ==
  \/ ~form.cold_address.wellformed
  \/ ~form.hot_address.wellformed
  \/ ~IsValidForNetwork(form.cold_address, form.network)
  \/ ~IsValidForNetwork(form.hot_address, form.network)
  \/ form.amount <= 0
  \/ form.block_delay <= 0
  \/ form.block_delay > 65535

\* C8: a form with an invalid address, an address of the wrong network, a
\* non-positive amount or a zero or overflowing delay is rejected with an
\* error before any core operation is invoked on it.
C8_RejectedAtBoundary ==
  (Done("locking") /\ InvalidForm(arg)) => (ret.st = "err" /\ core = <<>>)

\* C9: with hot # cold, the hash the hot branch commits to differs from the
\* hash the cold branch commits to.
C9_BranchHashesDiffer ==
  (Done("vault_locking_script") /\ ret.st = "ok" /\ arg.hot # arg.cold) =>
    /\ Len(PushedHashes(ret.val)) = 2
    /\ PushedHashes(ret.val)[1] # PushedHashes(ret.val)[2]

C9_Witness ==
  /\ Done("vault_locking_script") /\ ret.st = "ok"
  /\ arg.hot # arg.cold
  /\ arg.hot.payload = arg.cold.payload

====
